---- MODULE Spec2Model ----
(***************************************************************************)
(* FNB statement analyzer (src/streamlit_app.py): the statement-text to    *)
(* transaction extraction and the balance reconciliation.                  *)
(*                                                                         *)
(* A line of page text is kept as the string itself; Tokens gives its      *)
(* white-space separated tokens.  A token is a record: its text s, and      *)
(* for a numeric token (k = "n") the characters the regular expressions     *)
(* and float() look at: an opening parenthesis lp, a minus sign, nd         *)
(* integer digits of value whole (sep: written with thousands separators), *)
(* an optional two-digit fraction frac (-1: none) and a closing             *)
(* parenthesis rp.  Money is in integer cents; an Optional[float] is the   *)
(* empty sequence (None) or a one-element sequence.                        *)
(***************************************************************************)
EXTENDS Integers, Sequences, FiniteSets, TLC

VARIABLES
    text,            \* parse_file: the page text, one entry per line
    lines,           \* parse_file: tokenize_lines(doc)
    year,            \* parse_file: the resolved statement year
    opening_balance, \* parse_transactions_from_lines: opening_balance
    i,               \* parse_transactions_from_lines: i (1-based here)
    txns,            \* parse_transactions_from_lines: txns
    leftovers,       \* parse_transactions_from_lines: leftovers
    prev_running,    \* parse_transactions_from_lines: prev_running
    pc,              \* position in parse_file
    printed_prev,    \* history: running balance printed on the last handled
                     \* amount row that prints one (the opening balance before)
    uploaded,        \* main: the uploaded files
    tol,             \* main: the reconciliation tolerance, in cents
    f,               \* main: index of the file the loop is at
    all_tx,          \* main: all_tx
    balance_rows,    \* main: balance_rows
    mpc              \* position in main

parse_vars == <<text, lines, year, opening_balance, i, txns, leftovers,
                prev_running, pc, printed_prev>>
main_vars == <<uploaded, tol, f, all_tx, balance_rows, mpc>>
vars == <<text, lines, year, opening_balance, i, txns, leftovers,
          prev_running, pc, printed_prev, uploaded, tol, f, all_tx,
          balance_rows, mpc>>

None == << >>
Some(v) == << v >>

----------------------------------------------------------------------------
(* Tokens *)

W(s) == [k |-> "w", s |-> s, lp |-> FALSE, minus |-> FALSE, nd |-> 0,
         sep |-> FALSE, whole |-> 0, frac |-> -1, rp |-> FALSE]

\* a number written s: nd integer digits of value w, fraction ff (-1: none)
Num(s, nd, w, ff) ==
    [k |-> "n", s |-> s, lp |-> FALSE, minus |-> FALSE, nd |-> nd,
     sep |-> FALSE, whole |-> w, frac |-> ff, rp |-> FALSE]

\* the rows of the model as str.split() cuts them
Split(row) ==
    CASE row = "" -> << >>
      [] row = "03 Jan Some Purchase" ->
           <<Num("03", 2, 3, -1), W("Jan"), W("Some"), W("Purchase")>>
      [] row = "04 Jan Another Purchase" ->
           <<Num("04", 2, 4, -1), W("Jan"), W("Another"), W("Purchase")>>
      [] row = "29 Feb Rent" -> <<Num("29", 2, 29, -1), W("Feb"), W("Rent")>>
      [] row = "03 Jan Coffee 150.00" ->
           <<Num("03", 2, 3, -1), W("Jan"), W("Coffee"),
             Num("150.00", 3, 150, 0)>>
      [] row = "12 Pos Purchase" ->
           <<Num("12", 2, 12, -1), W("Pos"), W("Purchase")>>
      [] row = "WOOLWORTHS SANDTON" -> <<W("WOOLWORTHS"), W("SANDTON")>>
      [] row = "150.00" -> <<Num("150.00", 3, 150, 0)>>
      [] row = "(20.00)" ->
           <<[Num("(20.00)", 2, 20, 0) EXCEPT !.lp = TRUE, !.rp = TRUE]>>
      [] row = "(100.00" ->
           <<[Num("(100.00", 3, 100, 0) EXCEPT !.lp = TRUE]>>
      [] row = "100.00 900.00 CR" ->
           <<Num("100.00", 3, 100, 0), Num("900.00", 3, 900, 0), W("CR")>>
      [] row = "100.00 DR 900.00" ->
           <<Num("100.00", 3, 100, 0), W("DR"), Num("900.00", 3, 900, 0)>>
      [] row = "500.00 CR" -> <<Num("500.00", 3, 500, 0), W("CR")>>
      [] row = "200.00 DR" -> <<Num("200.00", 3, 200, 0), W("DR")>>
      [] row = "50.00 DR" -> <<Num("50.00", 2, 50, 0), W("DR")>>
      [] row = "Page 2 of 5" ->
           <<W("Page"), Num("2", 1, 2, -1), W("of"), Num("5", 1, 5, -1)>>
      [] row = "Date Description Amount Balance" ->
           <<W("Date"), W("Description"), W("Amount"), W("Balance")>>
      [] row = "Opening Balance R 1,000.00" ->
           <<W("Opening"), W("Balance"), W("R"),
             [Num("1,000.00", 4, 1000, 0) EXCEPT !.sep = TRUE]>>
      [] row = "Closing Balance" -> <<W("Closing"), W("Balance")>>
      [] row = "FNB Private Clients" ->
           <<W("FNB"), W("Private"), W("Clients")>>

AllRows == {"", "03 Jan Some Purchase", "04 Jan Another Purchase",
            "29 Feb Rent", "03 Jan Coffee 150.00", "12 Pos Purchase",
            "WOOLWORTHS SANDTON", "150.00", "(20.00)", "(100.00",
            "100.00 900.00 CR", "100.00 DR 900.00", "500.00 CR", "200.00 DR", "50.00 DR",
            "Page 2 of 5",
            "Date Description Amount Balance", "Opening Balance R 1,000.00",
            "Closing Balance", "FNB Private Clients"}

TokenTable == [row \in AllRows |-> Split(row)]

Tokens(row) == TokenTable[row]

\* str.lower() on the vocabulary of the model (re.IGNORECASE, mon.lower())
Lower(s) ==
    CASE s = "CR" -> "cr" [] s = "Cr" -> "cr"
      [] s = "DR" -> "dr" [] s = "Dr" -> "dr"
      [] s = "R" -> "r"
      [] s = "Jan" -> "jan" [] s = "JAN" -> "jan"
      [] s = "Feb" -> "feb"
      [] s = "Pos" -> "pos"
      [] s = "Page" -> "page"
      [] s = "FNB" -> "fnb"
      [] s = "Statement" -> "statement"
      [] s = "Some" -> "some" [] s = "Another" -> "another"
      [] s = "Purchase" -> "purchase"
      [] s = "Rent" -> "rent" [] s = "Coffee" -> "coffee"
      [] s = "WOOLWORTHS" -> "woolworths" [] s = "SANDTON" -> "sandton"
      [] s = "Date" -> "date" [] s = "Description" -> "description"
      [] s = "Amount" -> "amount" [] s = "Balance" -> "balance"
      [] s = "Opening" -> "opening" [] s = "Closing" -> "closing"
      [] s = "Private" -> "private" [] s = "Clients" -> "clients"
      [] OTHER -> s

MONTHS_3 == {"jan", "feb", "mar", "apr", "may", "jun", "jul", "aug", "sep",
             "oct", "nov", "dec"}

----------------------------------------------------------------------------
(* Helpers *)

\* \(?-?\d{1,3}(?:,\d{3})*(?:\.\d{2})?\)? as a whole token
AmountShaped(t) == t.k = "n" /\ (t.sep \/ t.nd <= 3)

\* \b(?:CR|DR)\b of AMOUNT_AND_BALANCE_RE, compiled without IGNORECASE
UpperMarker(t) == t.k = "w" /\ t.s \in {"CR", "DR"}

\* \b[Rr] followed by white space
RandToken(t) == t.k = "w" /\ t.s \in {"R", "r"}

\* float() of a numeric token without its sign characters, in cents
Magnitude(t) == t.whole * 100 + (IF t.frac = -1 THEN 0 ELSE t.frac)

Abs(x) == IF x < 0 THEN -x ELSE x

\* re.search(r"\bCR\b", s, re.IGNORECASE) on a line
HasMarker(line, m) == \E p \in 1..Len(line) :
                         line[p].k = "w" /\ Lower(line[p].s) = m

----------------------------------------------------------------------------
(* Noise filtering *)

\* \d+ as a whole token
DigitsOnly(t) == t.k = "n" /\ ~t.lp /\ ~t.minus /\ ~t.sep /\ t.frac = -1
                 /\ ~t.rp

\* first words of the patterns "^word\b.*" of HEADER_NOISE_PATTERNS
HEADER_NOISE_PATTERNS == {"fnb", "branch", "account", "statement", "customer",
                          "contact", "vat", "registered", "tel"}

is_noise(line) ==
    \/ line = << >>
    \/ /\ Len(line) = 4
       /\ line[1].k = "w" /\ Lower(line[1].s) = "page"
       /\ DigitsOnly(line[2])
       /\ line[3].k = "w" /\ Lower(line[3].s) = "of"
       /\ DigitsOnly(line[4])
    \/ line[1].k = "w" /\ Lower(line[1].s) \in HEADER_NOISE_PATTERNS
    \/ /\ Len(line) >= 3
       /\ \A p \in 1..3 : line[p].k = "w"
       /\ <<Lower(line[1].s), Lower(line[2].s), Lower(line[3].s)>>
            = <<"first", "national", "bank">>
    \/ line[1].k = "w" /\ Lower(line[1].s) \in {"www.fnb.co.za"}

\* the second loop of tokenize_lines: a run of empty rows keeps its first
RECURSIVE CollapseBlanks(_, _)
CollapseBlanks(rows, blank) ==
    IF rows = << >> THEN << >>
    ELSE IF Head(rows) = ""
         THEN (IF blank THEN << >> ELSE << Head(rows) >>)
              \o CollapseBlanks(Tail(rows), TRUE)
         ELSE << Head(rows) >> \o CollapseBlanks(Tail(rows), FALSE)

tokenize_lines(doc) ==
    CollapseBlanks(SelectSeq(doc, LAMBDA ln : ~is_noise(Tokens(ln))), FALSE)

----------------------------------------------------------------------------
(* Parsers *)

\* DATE_START_RE.match: one or two digits, white space, three letters at a
\* word boundary
DATE_START_RE(line) ==
    /\ Len(line) >= 2
    /\ DigitsOnly(line[1]) /\ line[1].nd <= 2
    /\ line[2].k = "w" /\ Len(line[2].s) = 3

\* tokens from..n of the line are: amount, optional CR/DR, and optionally a
\* running balance with its optional CR/DR; the result is the position of the
\* running balance (0: none, -1: the tokens do not have this form)
TailForm(line, from) ==
    LET n == Len(line)
        len == n - from + 1
        a(p) == AmountShaped(line[p])
        m(p) == UpperMarker(line[p])
    IN  IF len < 1 \/ len > 4 \/ ~a(from) THEN -1
        ELSE IF len = 1 THEN 0
        ELSE IF len = 2 THEN (IF m(from + 1) THEN 0
                              ELSE IF a(from + 1) THEN from + 1 ELSE -1)
        ELSE IF len = 3 THEN (IF m(from + 1) /\ a(from + 2) THEN from + 2
                              ELSE IF a(from + 1) /\ m(from + 2) THEN from + 1
                              ELSE -1)
        ELSE (IF m(from + 1) /\ a(from + 2) /\ m(from + 3) THEN from + 2
              ELSE -1)

\* The two optional prefixes of AMOUNT_AND_BALANCE_RE, "anything up to a
\* CR/DR" and "anything up to an R", as the positions <<p1, p2>> of the CR/DR
\* and of the R that end them (n + 1: the prefix is left out).
PrefixesUpTo(line, n) ==
    { pp \in (1..(n + 1)) \X (1..(n + 1)) :
        /\ pp[1] <= n => UpperMarker(line[pp[1]])
        /\ pp[2] <= n => RandToken(line[pp[2]])
        /\ (pp[1] <= n /\ pp[2] <= n) => pp[1] < pp[2] }

Prefixes(line) == PrefixesUpTo(line, Len(line))

\* where the amount starts after the prefixes pp
AmountAt(line, pp) ==
    IF pp[2] <= Len(line) THEN pp[2] + 1
    ELSE IF pp[1] <= Len(line) THEN pp[1] + 1 ELSE 1

\* the order in which the regex engine tries the prefixes: an optional group
\* is tried before it is left out, and a lazy ".*?" tries the nearest end first
TriedBefore(pp, qq) == pp[1] < qq[1] \/ (pp[1] = qq[1] /\ pp[2] < qq[2])

FirstTried(fits) ==
    CHOOSE pp \in fits : \A qq \in fits \ {pp} : TriedBefore(pp, qq)

MatchOf(line, fits) ==
    IF fits = {} THEN [m |-> FALSE, amt |-> 0, bal |-> 0]
    ELSE [m |-> TRUE, amt |-> AmountAt(line, FirstTried(fits)),
          bal |-> TailForm(line, AmountAt(line, FirstTried(fits)))]

\* AMOUNT_AND_BALANCE_RE.match(line): m (matched), and the positions of
\* group 1 (amount) and group 2 (running balance, 0 when it did not take part)
AMOUNT_AND_BALANCE_RE(line) ==
    MatchOf(line, { pp \in Prefixes(line) :
                      TailForm(line, AmountAt(line, pp)) >= 0 })

\* clean_amount with debit as the default sign of an unmarked amount
clean_amount_debit_default(t, crdr) ==
    IF (t.lp /\ ~t.rp) \/ (t.rp /\ ~t.lp) THEN [ok |-> FALSE, val |-> 0]
    ELSE IF crdr = "CR" THEN [ok |-> TRUE, val |-> Magnitude(t)]
    ELSE [ok |-> TRUE, val |-> -Magnitude(t)]

\* clean_amount(f"{raw_amt}{crdr}") for a numeric token and the marker that
\* parse_transactions_from_lines found on the amount line ("CR", "DR" or "");
\* float() raises ValueError on a parenthesis that was not stripped
clean_amount(t, crdr) ==
    LET both == t.lp /\ t.rp
        \* s = s[1:-1] / s = s[1:] : the characters left for float()
        minusLeads == t.minus /\ (both \/ ~t.lp)
        neg == both \/ minusLeads
        junk == (t.lp /\ ~both) \/ (t.rp /\ ~both) \/ (t.minus /\ ~minusLeads)
        val == Magnitude(t)
    IN  IF junk THEN [ok |-> FALSE, val |-> 0]
        ELSE IF crdr = "CR" THEN [ok |-> TRUE, val |-> Abs(val)]
        ELSE IF crdr = "DR" \/ neg THEN [ok |-> TRUE, val |-> -Abs(val)]
        ELSE [ok |-> TRUE, val |-> val]

\* clean_number(raw): None for no token and for a token float() rejects
clean_number(t) ==
    IF t = None THEN None
    ELSE LET tok == t[1]
             both == tok.lp /\ tok.rp
             \* "(x)" becomes "-x"; float() accepts one leading sign only
             signs == (IF both THEN 1 ELSE 0) + (IF tok.minus THEN 1 ELSE 0)
             junk == (tok.lp /\ ~both) \/ (tok.rp /\ ~both) \/ signs > 1
         IN  IF junk THEN None
             ELSE Some(IF signs = 1 THEN -Magnitude(tok) ELSE Magnitude(tok))

\* datetime.strptime(f"{int(day):02d} {mon.title()} {year}", "%d %b %Y")
\* succeeds iff the day exists in that month of that year
IsLeap(y) == (y % 4 = 0 /\ y % 100 # 0) \/ y % 400 = 0

DaysInMonth(mon, y) ==
    IF mon = "feb" THEN (IF IsLeap(y) THEN 29 ELSE 28)
    ELSE IF mon \in {"apr", "jun", "sep", "nov"} THEN 30 ELSE 31

strptime_ok(day, mon, y) == day >= 1 /\ day <= DaysInMonth(mon, y)

\* " ".join(" ".join(desc_parts).split()): the tokens of the parts in order
RECURSIVE Flatten(_)
Flatten(parts) ==
    IF parts = << >> THEN << >> ELSE Head(parts) \o Flatten(Tail(parts))

MinOf(S, dflt) == IF S = {} THEN dflt ELSE CHOOSE q \in S : \A r \in S : q <= r

\* the text of the tokens, in order
Words(toks) == [p \in 1..Len(toks) |-> toks[p].s]

ScanStoppedAt(ls, k, j) ==
    [j |-> j,
     found |-> j <= Len(ls) /\ ~DATE_START_RE(Tokens(ls[j])),
     desc_parts |-> << Words(SubSeq(Tokens(ls[k]), 3, Len(Tokens(ls[k])))) >>
                      \o [q \in 1..(j - 1 - k) |-> Words(Tokens(ls[k + q]))]]

\* The inner while loop of parse_transactions_from_lines for the block opened
\* at row k: j is the row that stopped the scan (n + 1: the end of the input),
\* found says that row j is the amount line.  The scan starts at row k + 1 and
\* tests DATE_START_RE before AMOUNT_AND_BALANCE_RE.
Scan(ls, k) ==
    ScanStoppedAt(ls, k,
        MinOf({ q \in (k + 1)..Len(ls) :
                  \/ DATE_START_RE(Tokens(ls[q]))
                  \/ AMOUNT_AND_BALANCE_RE(Tokens(ls[q])).m },
              Len(ls) + 1))

\* lines 283-287: the marker searched on the amount line, CR before DR
Marker(amount_line) ==
    IF HasMarker(amount_line, "cr") THEN "CR"
    ELSE IF HasMarker(amount_line, "dr") THEN "DR" ELSE ""

\* m_amt.group(2)
RawRunbal(amount_line, m_amt) ==
    IF m_amt.bal = 0 THEN None ELSE Some(amount_line[m_amt.bal])

\* lines 291-297: the running-balance delta replaces the naive amount, and the
\* previous running balance advances, when both balances are there
Signed(amt, runbal, prev) ==
    IF runbal # None /\ prev # None
    THEN [ok |-> amt.ok, amt |-> runbal[1] - prev[1], runbal |-> runbal,
          prev_running |-> runbal]
    ELSE [ok |-> amt.ok, amt |-> amt.val, runbal |-> runbal,
          prev_running |-> prev]

ResolveOn(amount_line, prev, m_amt) ==
    Signed(clean_amount(amount_line[m_amt.amt], Marker(amount_line)),
           clean_number(RawRunbal(amount_line, m_amt)), prev)

\* Lines 278-297: the amount of the block from its amount line and the
\* previous running balance.  ok is FALSE when clean_amount raises.
Resolve(amount_line, prev) ==
    ResolveOn(amount_line, prev, AMOUNT_AND_BALANCE_RE(amount_line))

BranchOfBlock(ls, yr, prev, line, sc) ==
    IF ~sc.found THEN "unterminated"
    ELSE IF ~Resolve(Tokens(ls[sc.j]), prev).ok THEN "raise"
    ELSE IF strptime_ok(line[1].whole, Lower(line[2].s), yr)
         THEN "append" ELSE "dateerr"

BranchOfLine(ls, yr, k, prev, line) ==
    IF ~DATE_START_RE(line) THEN "nodate"
    ELSE IF Lower(line[2].s) \notin MONTHS_3 THEN "nomonth"
    ELSE BranchOfBlock(ls, yr, prev, line, Scan(ls, k))

\* which branch of the outer while loop the iteration at row st.i takes
Branch(ls, yr, st) ==
    IF st.i > Len(ls) THEN "return"
    ELSE BranchOfLine(ls, yr, st.i, st.prev_running, Tokens(ls[st.i]))

\* the row that stopped the scan is skipped, as after an amount line
UnterminatedSkipsStop(ls, st, j) ==
    [st EXCEPT !.leftovers = Append(st.leftovers,
                   [tag |-> "UNTERMINATED", snippet |-> SubSeq(ls, st.i, j - 1)]),
               !.i = j + 1]

\* lines 305-308: the diagnostic, and the scan's stopping row is parsed next
UnterminatedAt(ls, st, j) ==
    [st EXCEPT !.leftovers = Append(st.leftovers,
                   [tag |-> "UNTERMINATED", snippet |-> SubSeq(ls, st.i, j - 1)]),
               !.i = j]

\* lines 299-304
Record(yr, st, line, j, desc, r, amount_line) ==
    IF strptime_ok(line[1].whole, Lower(line[2].s), yr)
    THEN [st EXCEPT !.txns = Append(st.txns,
                        [dt |-> <<yr, Lower(line[2].s), line[1].whole>>,
                         desc |-> desc, amt |-> r.amt]),
                    !.prev_running = r.prev_running,
                    !.i = j + 1]
    ELSE [st EXCEPT !.leftovers = Append(st.leftovers,
                        [tag |-> "DATEERR", day |-> line[1].whole,
                         mon |-> Lower(line[2].s), desc |-> desc,
                         amount_line |-> amount_line]),
                    !.prev_running = r.prev_running,
                    !.i = j + 1]

\* lines 276-304
BlockAt(ls, yr, st, sc) ==
    Record(yr, st, Tokens(ls[st.i]), sc.j, Flatten(sc.desc_parts),
           Resolve(Tokens(ls[sc.j]), st.prev_running), ls[sc.j])

\* one iteration of the outer while loop (lines 246-308), taking branch br,
\* on the parser state st = [i, txns, leftovers, prev_running, pc]
IterationOf(ls, yr, st, br) ==
    CASE br = "return" -> [st EXCEPT !.pc = "done"]
      [] br \in {"nodate", "nomonth"} -> [st EXCEPT !.i = st.i + 1]
      [] br = "unterminated" -> UnterminatedAt(ls, st, Scan(ls, st.i).j)
      [] br = "raise" -> [st EXCEPT !.pc = "raised"]
      [] br \in {"append", "dateerr"} -> BlockAt(ls, yr, st, Scan(ls, st.i))

Iteration(ls, yr, st) == IterationOf(ls, yr, st, Branch(ls, yr, st))

\* lines 241-245: the state on entry to the while loop
Entry(ob) == [i |-> 1, txns |-> << >>, leftovers |-> << >>,
              prev_running |-> ob, pc |-> "loop"]

RECURSIVE Run(_, _, _)
Run(ls, yr, st) ==
    IF st.pc # "loop" THEN st ELSE Run(ls, yr, Iteration(ls, yr, st))

\* the whole function: pc = "done" with txns and leftovers, or pc = "raised"
parse_transactions_from_lines(ls, yr, ob) == Run(ls, yr, Entry(ob))

----------------------------------------------------------------------------
(* Inputs *)

MaxLines == 4
MaxPageLines == 3
MaxFiles == 2

\* rows of a statement page for the parser: rows that open a block (one with
\* a date that exists in leap years only), a wrapped description, and amount
\* rows: bare, in parentheses, with an unbalanced parenthesis, with a running
\* balance and a marker after it, with a marker between amount and running
\* balance
ParseRows == {"03 Jan Some Purchase", "04 Jan Another Purchase",
              "29 Feb Rent", "WOOLWORTHS SANDTON", "150.00", "(20.00)",
              "(100.00", "100.00 900.00 CR", "100.00 DR 900.00"}

\* rows of a statement page with its headers and footers, a block opened by
\* a row that ends with the amount, and a row of digits and three letters
\* that are not a month
PageRows == {"", "Page 2 of 5", "Date Description Amount Balance",
             "Opening Balance R 1,000.00", "Closing Balance",
             "FNB Private Clients", "03 Jan Coffee 150.00",
             "12 Pos Purchase", "29 Feb Rent", "150.00", "(100.00"}

Years == {2023, 2024}

\* parse_balances_text: no opening balance found, or 1,000.00
Openings == {None, Some(100000)}

\* parse_balances_text: no closing balance found, 1,250.00 or 1,250.01
Closings == {None, Some(125000), Some(125001)}

\* the sidebar's tolerance: 0.00 or 0.01
Tolerances == {0, 1}

SeqsUpTo(S, n) == UNION { [1..k -> S] : k \in 0..n }

\* the text and statement year of the documents of a batch
Documents ==
    { [text |-> <<"03 Jan Some Purchase", "500.00 CR",
                  "04 Jan Another Purchase", "200.00 DR",
                  "03 Jan Some Purchase", "50.00 DR">>, year |-> 2024],
      [text |-> <<"03 Jan Some Purchase", "150.00">>, year |-> 2024],
      [text |-> << >>, year |-> 2024],
      [text |-> <<"03 Jan Some Purchase", "(100.00">>, year |-> 2024],
      [text |-> <<"29 Feb Rent", "150.00">>, year |-> 2023] }

\* an uploaded file: one that fitz.open cannot open, or a document with the
\* balances parse_balances_text finds in it
Files ==
    { [readable |-> FALSE, text |-> << >>, year |-> 2024, opening |-> None,
       closing |-> None] }
    \cup { [readable |-> TRUE, text |-> d.text, year |-> d.year,
            opening |-> o, closing |-> c] :
           d \in Documents, o \in Openings, c \in Closings }

IdleMain ==
    /\ uploaded = << >> /\ tol = 0 /\ f = 0
    /\ all_tx = << >> /\ balance_rows = << >> /\ mpc = "idle"

IdleFile ==
    /\ text = << >> /\ year = 2024 /\ opening_balance = None
    /\ lines = << >> /\ i = 0 /\ txns = << >> /\ leftovers = << >>
    /\ prev_running = None /\ printed_prev = None /\ pc = "idle"

\* parse_file on one readable document, up to the call of tokenize_lines
InitFile(rows, n) ==
    /\ text \in SeqsUpTo(rows, n)
    /\ year \in Years
    /\ opening_balance \in Openings
    /\ lines = << >>
    /\ i = 0 /\ txns = << >> /\ leftovers = << >>
    /\ prev_running = None /\ printed_prev = None
    /\ pc = "tokenize"
    /\ IdleMain

Init == InitFile(ParseRows, MaxLines)

InitPage == InitFile(PageRows, MaxPageLines)

\* main with the files of one upload
InitMain ==
    /\ uploaded \in SeqsUpTo(Files, MaxFiles)
    /\ tol \in Tolerances
    /\ f = 0 /\ all_tx = << >> /\ balance_rows = << >> /\ mpc = "start"
    /\ IdleFile

----------------------------------------------------------------------------
(* parse_file, one step of parse_transactions_from_lines at a time *)

ps == [i |-> i, txns |-> txns, leftovers |-> leftovers,
       prev_running |-> prev_running, pc |-> pc]

SetParser(next) ==
    /\ i' = next.i
    /\ txns' = next.txns
    /\ leftovers' = next.leftovers
    /\ prev_running' = next.prev_running
    /\ pc' = next.pc

\* lines 318-319 and 241-245
Tokenize ==
    /\ pc = "tokenize"
    /\ lines' = tokenize_lines(text)
    /\ SetParser(Entry(opening_balance))
    /\ printed_prev' = opening_balance
    /\ UNCHANGED <<text, year, opening_balance>>
    /\ UNCHANGED main_vars

Step(brs) ==
    /\ pc = "loop"
    /\ Branch(lines, year, ps) \in brs
    /\ SetParser(Iteration(lines, year, ps))
    /\ UNCHANGED <<text, lines, year, opening_balance>>
    /\ UNCHANGED main_vars

\* the running balance printed on an amount row: the second of two decimal
\* amounts, read as clean_number reads it
LastOf(line, dec) ==
    IF Cardinality(dec) < 2 THEN None
    ELSE clean_number(Some(line[CHOOSE p \in dec : \A q \in dec : q <= p]))

PrintedBalance(line) ==
    LastOf(line, { p \in 1..Len(line) :
                     AmountShaped(line[p]) /\ line[p].frac # -1 })

AmountRowAt(k) == Tokens(lines[Scan(lines, k).j])

KeepPrinted == printed_prev' = printed_prev

AdvancePrinted ==
    printed_prev' = IF PrintedBalance(AmountRowAt(i)) # None
                    THEN PrintedBalance(AmountRowAt(i)) ELSE printed_prev

\* lines 249-251 and 255-257: not a row that opens a block
SkipLine == Step({"nodate", "nomonth"}) /\ KeepPrinted
\* lines 276-301, 304
AppendTxn == Step({"append"}) /\ AdvancePrinted
\* lines 276-297, 302-304
DateErr == Step({"dateerr"}) /\ AdvancePrinted
\* line 288: clean_amount raises ValueError
RaiseValueError == Step({"raise"}) /\ KeepPrinted
\* lines 305-308
Unterminated == Step({"unterminated"}) /\ KeepPrinted
\* line 309
Return == Step({"return"}) /\ KeepPrinted

Next ==
    \/ Tokenize
    \/ SkipLine
    \/ AppendTxn
    \/ DateErr
    \/ RaiseValueError
    \/ Unterminated
    \/ Return

Spec == Init /\ [][Next]_vars

SpecPage == InitPage /\ [][Next]_vars

----------------------------------------------------------------------------
(* main *)

\* lines 228-236 on whole words of the description
TRANSFER_KEYWORDS == {"transfer", "eft", "rtgs", "recon", "e-wallet",
                      "ewallet", "inter-account"}

classify_type(description, amount) ==
    IF amount > 0
    THEN (IF \E p \in 1..Len(description) :
               Lower(description[p]) \in TRANSFER_KEYWORDS
          THEN "Transfer In" ELSE "Income")
    ELSE IF amount < 0
    THEN (IF \E p \in 1..Len(description) :
               Lower(description[p]) \in TRANSFER_KEYWORDS
          THEN "Transfer Out" ELSE "Expense")
    ELSE "Zero / Reversal"

Parsed(file, r) ==
    [ok |-> r.pc = "done", transactions |-> r.txns, opening |-> file.opening,
     closing |-> file.closing, leftovers |-> r.leftovers]

\* parse_file: ok is FALSE when fitz.open or parse_transactions_from_lines
\* raises
parse_file(file) ==
    IF ~file.readable
    THEN [ok |-> FALSE, transactions |-> << >>, opening |-> None,
          closing |-> None, leftovers |-> << >>]
    ELSE Parsed(file, parse_transactions_from_lines(
                          tokenize_lines(file.text), file.year, file.opening))

RECURSIVE SumAmounts(_)
SumAmounts(ts) ==
    IF ts = << >> THEN 0 ELSE Head(ts).amt + SumAmounts(Tail(ts))

\* a missing opening balance counted as zero
ExpectedZeroOpening(opening, net) ==
    Some((IF opening # None THEN opening[1] ELSE 0) + net)

\* lines 372-373
Expected(opening, net) ==
    IF opening # None THEN Some(opening[1] + net) ELSE None

Difference(closing, expected) ==
    IF closing # None /\ expected # None
    THEN Some(closing[1] - expected[1]) ELSE None

\* lines 362-369
TxRows(stmt, ts) ==
    [p \in 1..Len(ts) |->
       [Statement |-> stmt, Date |-> ts[p].dt, Description |-> ts[p].desc,
        Amount |-> ts[p].amt, Type |-> classify_type(ts[p].desc, ts[p].amt)]]

\* lines 371-383
BalanceRow(stmt, parsed, net) ==
    [Statement |-> stmt,
     Opening |-> parsed.opening,
     Net |-> net,
     Expected |-> Expected(parsed.opening, net),
     Actual |-> parsed.closing,
     Difference |-> Difference(parsed.closing, Expected(parsed.opening, net)),
     Count |-> Len(parsed.transactions)]

\* lines 344-346
NoUpload ==
    /\ mpc = "start" /\ uploaded = << >>
    /\ mpc' = "returned"
    /\ UNCHANGED <<uploaded, tol, f, all_tx, balance_rows>>
    /\ UNCHANGED parse_vars

\* lines 348-351
StartLoop ==
    /\ mpc = "start" /\ uploaded # << >>
    /\ mpc' = "files" /\ f' = 1
    /\ UNCHANGED <<uploaded, tol, all_tx, balance_rows>>
    /\ UNCHANGED parse_vars

\* lines 351-383: one iteration of the loop over the uploaded files
ProcessFile ==
    /\ mpc = "files" /\ f <= Len(uploaded)
    /\ parse_file(uploaded[f]).ok
    /\ all_tx' = all_tx \o TxRows(f, parse_file(uploaded[f]).transactions)
    /\ balance_rows' = Append(balance_rows,
           BalanceRow(f, parse_file(uploaded[f]),
                      SumAmounts(parse_file(uploaded[f]).transactions)))
    /\ f' = f + 1
    /\ UNCHANGED <<uploaded, tol, mpc>>
    /\ UNCHANGED parse_vars

\* line 356: parse_file raises and nothing in main catches it
FileRaises ==
    /\ mpc = "files" /\ f <= Len(uploaded)
    /\ ~parse_file(uploaded[f]).ok
    /\ mpc' = "aborted"
    /\ UNCHANGED <<uploaded, tol, f, all_tx, balance_rows>>
    /\ UNCHANGED parse_vars

\* line 423
AnyDiff == \E r \in 1..Len(balance_rows) :
              /\ balance_rows[r].Difference # None
              /\ Abs(balance_rows[r].Difference[1]) > tol

\* lines 419-427
Summarize ==
    /\ mpc = "files" /\ f > Len(uploaded)
    /\ mpc' = IF AnyDiff THEN "warning" ELSE "success"
    /\ UNCHANGED <<uploaded, tol, f, all_tx, balance_rows>>
    /\ UNCHANGED parse_vars

\* line 423: with no difference defined in any row the column holds None
\* only, and Series.abs() may raise TypeError on it
SummaryRaises ==
    /\ mpc = "files" /\ f > Len(uploaded)
    /\ \A r \in 1..Len(balance_rows) : balance_rows[r].Difference = None
    /\ mpc' = "aborted"
    /\ UNCHANGED <<uploaded, tol, f, all_tx, balance_rows>>
    /\ UNCHANGED parse_vars

NextMain ==
    \/ NoUpload
    \/ StartLoop
    \/ ProcessFile
    \/ FileRaises
    \/ Summarize
    \/ SummaryRaises

SpecMain == InitMain /\ [][NextMain]_vars

----------------------------------------------------------------------------
(* Claims about parse_transactions_from_lines *)

\* the transaction appended by the step
Appended == txns'[Len(txns')]

\* the iteration at row i reaches an amount line and appends a transaction
Appends == pc = "loop" /\ Branch(lines, year, ps) = "append"

\* the running balance the code reads from an amount row
CodeRunbal(row) == clean_number(RawRunbal(row, AMOUNT_AND_BALANCE_RE(row)))

\* C1: whenever the amount row of an appended transaction prints a running
\* balance and a previous running balance is defined (the opening balance, or
\* the running balance of the previous row that prints one), the recorded
\* amount is this running balance minus the previous one, whatever the
\* printed amount and its CR/DR marker say.
C1_DeltaWins ==
    [][(Appends /\ PrintedBalance(AmountRowAt(i)) # None
                /\ printed_prev # None)
         => Appended.amt = PrintedBalance(AmountRowAt(i))[1] - printed_prev[1]]_vars

\* C2: after an amount row from which the parser reads a running balance,
\* prev_running is that running balance, with or without an opening balance.
C2_ChainAdvances ==
    [][(pc = "loop" /\ Branch(lines, year, ps) \in {"append", "dateerr"}
          /\ CodeRunbal(AmountRowAt(i)) # None)
         => prev_running' = CodeRunbal(AmountRowAt(i))]_vars

\* the parser has no running-balance delta for the block at row i
NoDelta == CodeRunbal(AmountRowAt(i)) = None \/ prev_running = None

\* the amount token the parser takes from an amount row
AmountToken(row) == row[AMOUNT_AND_BALANCE_RE(row).amt]

FallbackAmount(row) ==
    IF HasMarker(row, "cr") THEN Magnitude(AmountToken(row))
    ELSE IF \/ HasMarker(row, "dr")
            \/ (AmountToken(row).lp /\ AmountToken(row).rp)
            \/ AmountToken(row).minus
         THEN -Magnitude(AmountToken(row))
    ELSE Magnitude(AmountToken(row))

Opens(k) ==
    /\ DATE_START_RE(Tokens(lines[k]))
    /\ Lower(Tokens(lines[k])[2].s) \in MONTHS_3

\* a decimal amount ends the row
EndsWithAmount(row) ==
    AmountShaped(row[Len(row)]) /\ row[Len(row)].frac # -1

\* C4: a row that opens a block with a valid date and ends with an amount is
\* a transaction with that amount by itself: the iteration at that row
\* appends one transaction of that magnitude and reports nothing.
C4_AmountOnOpeningRow ==
    [][(pc = "loop" /\ i <= Len(lines) /\ Opens(i)
          /\ EndsWithAmount(Tokens(lines[i]))
          /\ strptime_ok(Tokens(lines[i])[1].whole,
                         Lower(Tokens(lines[i])[2].s), year))
         => /\ Len(txns') = Len(txns) + 1
            /\ Abs(Appended.amt)
                 = Magnitude(Tokens(lines[i])[Len(Tokens(lines[i]))])
            /\ leftovers' = leftovers]_vars

\* the first row after k that starts like a date, or the end of the input
NextDateRow(k) ==
    MinOf({ q \in (k + 1)..Len(lines) : DATE_START_RE(Tokens(lines[q])) },
          Len(lines) + 1)

\* no row after k and before the next date row is an amount row
NoAmountRow(k) ==
    \A q \in (k + 1)..(NextDateRow(k) - 1) :
       ~AMOUNT_AND_BALANCE_RE(Tokens(lines[q])).m

C5_Example ==
    <<"03 Jan Some Purchase", "04 Jan Another Purchase", "150.00">>

\* C5: a row that opens a block and reaches the next date row or the end of
\* the input before any amount row adds one UNTERMINATED diagnostic and no
\* transaction, and parsing goes on at the row that stopped the scan; the
\* rows "03 Jan Some Purchase", "04 Jan Another Purchase", "150.00" end with
\* one diagnostic and one transaction, the second.
C5_Unterminated ==
    [][/\ (pc = "loop" /\ i <= Len(lines) /\ Opens(i) /\ NoAmountRow(i))
          => /\ Len(leftovers') = Len(leftovers) + 1
             /\ SubSeq(leftovers', 1, Len(leftovers)) = leftovers
             /\ leftovers'[Len(leftovers')].tag = "UNTERMINATED"
             /\ txns' = txns
             /\ i' = NextDateRow(i)
             /\ pc' = "loop"
       /\ (pc' = "done" /\ lines = C5_Example)
          => /\ Len(leftovers') = 1 /\ Len(txns') = 1
             /\ txns'[1].dt[3] = 4
             /\ txns'[1].desc = <<"Another", "Purchase">>]_vars

\* C5: the example has been parsed to its end.
C5_Witness ==
    /\ pc = "done" /\ lines = C5_Example
    /\ Len(leftovers) = 1 /\ leftovers[1].tag = "UNTERMINATED"
    /\ Len(txns) = 1

\* C6: parse_transactions_from_lines returns normally for every sequence of
\* rows: a malformed amount is a diagnostic, never an exception.
C6_NeverRaises == pc # "raised"

\* C10: no row that tokenize_lines returns is a page footer, the caption of
\* the columns or an Opening/Closing Balance line.
C10_NoNoiseRows ==
    pc # "tokenize"
      => \A q \in 1..Len(lines) :
            lines[q] \notin {"Page 2 of 5", "Date Description Amount Balance",
                             "Opening Balance R 1,000.00", "Closing Balance"}

\* the amount rows the parser has reached before it is at row k, in order:
\* the row, and whether the date of its block is a calendar date
RECURSIVE AmountRowsBefore(_, _, _, _)
AmountRowsBefore(ls, yr, st, k) ==
    IF st.pc # "loop" \/ st.i >= k \/ st.i > Len(ls) THEN << >>
    ELSE (IF Branch(ls, yr, st) \in {"append", "dateerr", "raise"}
          THEN << [row |-> Tokens(ls[Scan(ls, st.i).j]),
                   valid |-> Branch(ls, yr, st) # "dateerr"] >>
          ELSE << >>)
         \o AmountRowsBefore(ls, yr, Iteration(ls, yr, st), k)

\* the amount rows reached in the prefix of the input parsed so far
Reached ==
    AmountRowsBefore(lines, year, Entry(opening_balance),
                     IF pc = "loop" THEN i ELSE Len(lines) + 1)

\* every amount row of rs prints a running balance that clean_number parses
\* and belongs to a block with a valid date
AllCarryBalance(rs) ==
    \A p \in 1..Len(rs) : PrintedBalance(rs[p].row) # None /\ rs[p].valid

\* the last running balance printed in rs, the opening balance before any
LastSeen(rs, ob) ==
    IF rs = << >> THEN ob[1] ELSE PrintedBalance(rs[Len(rs)].row)[1]

\* C11: with an opening balance, and every amount row reached so far printing
\* a parseable running balance under a valid date, the sum of the ledger
\* amounts after any prefix of the input is the last running balance seen
\* minus the opening balance (so opening + net is the last printed running
\* balance), whatever the printed amounts and the rows skipped or reported
\* as unterminated in between.
C11_Telescoping ==
    (pc \in {"loop", "done"} /\ opening_balance # None
       /\ AllCarryBalance(Reached))
      => SumAmounts(txns) = LastSeen(Reached, opening_balance) - opening_balance[1]

----------------------------------------------------------------------------
(* Claims about main *)

RECURSIVE SumOf(_)
SumOf(rows) == IF rows = << >> THEN 0 ELSE Head(rows).Amount + SumOf(Tail(rows))

\* the rows of all_tx of statement stmt
Ledger(stmt) == SelectSeq(all_tx, LAMBDA t : t.Statement = stmt)

ReportOf(row, file, ledger) ==
    /\ row.Net = SumOf(ledger)
    /\ row.Count = Len(ledger)
    /\ row.Opening = file.opening /\ row.Actual = file.closing
    /\ row.Expected = IF file.opening = None THEN None
                      ELSE Some(file.opening[1] + SumOf(ledger))
    /\ row.Difference = IF file.closing = None \/ row.Expected = None
                        THEN None
                        ELSE Some(file.closing[1] - row.Expected[1])
    /\ (file.opening = Some(100000)
          /\ [p \in 1..Len(ledger) |-> ledger[p].Amount]
               = <<50000, -20000, -5000>>)
         => row.Expected = Some(125000)

\* C7: in the reconciliation row of every statement, net is the sum of its
\* ledger amounts, the count is the length of its ledger, expected closing is
\* opening + net when an opening balance was found and undefined otherwise,
\* and the difference is actual - expected when both are defined and
\* undefined otherwise; opening 1000.00 with amounts +500.00, -200.00, -50.00
\* gives 1250.00.
C7_Report ==
    \A r \in 1..Len(balance_rows) :
       ReportOf(balance_rows[r], uploaded[balance_rows[r].Statement],
                Ledger(balance_rows[r].Statement))

\* C7: the row of a statement with opening 1000.00 and three transactions of
\* net 250.00 and closing 1250.00, and the row of one without opening.
C7_Witness ==
    /\ \E r \in 1..Len(balance_rows) :
          /\ balance_rows[r].Opening = Some(100000)
          /\ balance_rows[r].Net = 25000 /\ balance_rows[r].Count = 3
          /\ balance_rows[r].Expected = Some(125000)
          /\ balance_rows[r].Difference = Some(0)
    /\ \E r \in 1..Len(balance_rows) :
          /\ balance_rows[r].Opening = None /\ balance_rows[r].Net # 0
          /\ balance_rows[r].Expected = None
          /\ balance_rows[r].Difference = None

\* C8: "All statements reconcile" is shown only when every statement has a
\* defined difference within the tolerance (stated for the batches in which
\* some statement has a defined difference).
C8_SuccessOnlyIfAllReconcile ==
    (mpc = "success"
       /\ \E r \in 1..Len(balance_rows) : balance_rows[r].Difference # None)
      => \A r \in 1..Len(balance_rows) :
            /\ balance_rows[r].Difference # None
            /\ Abs(balance_rows[r].Difference[1]) <= tol

\* C9: when the only failures of a batch are files that cannot be opened,
\* main ends with a reconciliation row for every other file.
C9_BatchIsolation ==
    (/\ mpc \in {"warning", "success", "aborted"}
     /\ \A k \in 1..Len(uploaded) :
           uploaded[k].readable => parse_file(uploaded[k]).ok)
      => \A k \in 1..Len(uploaded) :
            uploaded[k].readable
              => \E r \in 1..Len(balance_rows) : balance_rows[r].Statement = k
====
